---------------------------- MODULE Spec2Model ----------------------------
(***************************************************************************)
(* Model of the AEMET acquisition pipeline of datania/hub:                 *)
(*   src/datania/aemet.py               (impl = "aemet")                   *)
(*   src/datania/aemet/daily_weather.py (impl = "daily")                   *)
(*                                                                         *)
(* Specifications of the module:                                           *)
(*   Spec      the acquisition loop: window walk, skip check, two-stage    *)
(*             fetch, per-day files, process interruption and re-runs;     *)
(*   SpecLoop  one uninterrupted run over a directory that already holds   *)
(*             files, with the fairness that makes it progress;            *)
(*   SpecFetch one call of the resolver, attempt by attempt, with the      *)
(*             waits of the retry loops;                                   *)
(*   SpecCompact the compaction of the raw directory beside a save loop.   *)
(*                                                                         *)
(* A datetime is a number of ticks since 1920-01-01T00:00, TicksPerDay     *)
(* ticks a day: tick 0 of a day is midnight, the others are times of day.  *)
(***************************************************************************)
EXTENDS Integers, Sequences, FiniteSets, TLC

\* ------------------------------------------------------------ bounds
TicksPerDay == 2
MaxEndDay == 16
MaxShortDay == 2
MaxRuns == 2
MaxVer == 2
MaxHead == 0
NumStations == 2
MaxCompDay == 1

\* ------------------------------------------------- program constants
BATCH_SIZE == 15
MaxRetriesA == 8
MaxRetriesB == 5

Impls == {"aemet", "daily"}
NoFecha == -1
Days == 0..MaxEndDay

\* ------------------------------------------------------ calendar
timedelta(days) == days * TicksPerDay
\* strftime('%Y-%m-%d'): the calendar day of a datetime
DayOf(t) == t \div TicksPerDay
Min(a, b) == IF a <= b THEN a ELSE b
start_date == 0

\* ------------------------------------------------------ the store
\* A file of the raw directory: absent, or the records written so far and
\* whether the write of the whole record group has ended.
NoFile == [present |-> FALSE, recs |-> <<>>, complete |-> FALSE]
File(recs, complete) == [present |-> TRUE, recs |-> recs, complete |-> complete]
existsNever(st, day) == FALSE
exists(st, day) == day \in DOMAIN st /\ st[day].present

\* ------------------------------------------------------ window walk
BatchEndOff(cur, endd) ==
    Min(cur + timedelta(BATCH_SIZE), endd - timedelta(1))
\* (the range's end itself as the bound)
BatchEndToday(cur, endd) ==
    Min(cur + timedelta(BATCH_SIZE - 1), endd)
BatchEnd(cur, endd) ==
    Min(cur + timedelta(BATCH_SIZE - 1), endd - timedelta(1))

\* aemet.py: the list of the window's days whose file does not exist
RECURSIVE MissingDaysA(_, _, _)
MissingDaysA(check_date, batch_end, st) ==
    IF check_date <= batch_end
    THEN (IF ~exists(st, DayOf(check_date)) THEN <<check_date>> ELSE <<>>)
         \o MissingDaysA(check_date + timedelta(1), batch_end, st)
    ELSE <<>>

\* daily_weather.py: stop at the first missing day
RECURSIVE MissingB(_, _, _)
MissingB(check_date, batch_end, st) ==
    IF check_date <= batch_end
    THEN IF ~exists(st, DayOf(check_date)) THEN TRUE
         ELSE MissingB(check_date + timedelta(1), batch_end, st)
    ELSE FALSE

NeedsFetchFirstDayOnly(im, cur, bend, st) ==
    cur <= bend /\ ~exists(st, DayOf(cur))
NeedsFetch(im, cur, bend, st) ==
    IF im = "aemet" THEN MissingDaysA(cur, bend, st) # <<>>
    ELSE MissingB(cur, bend, st)

\* ------------------------------------------------------ retry loops
Resps == {"ok", "r429", "r500", "other", "transport"}

RateLimitDelayANoBase(attempt) == 2^attempt
RateLimitDelayA(attempt) == (2^attempt) * 2
OtherDelayADouble(attempt) == (2^attempt) * 2
OtherDelayA(attempt) == (2^attempt) * 1
RateLimitDelayB(attempt) == 2^(attempt + 1)
ExceptDelayB(attempt) == 2^attempt

Continue(delay) == [next |-> "continue", delay |-> delay, err |-> "none"]
Return == [next |-> "return", delay |-> 0, err |-> "none"]
Raise(err) == [next |-> "raise", delay |-> 0, err |-> err]

\* One iteration of the loop of _make_api_request_with_retry
IterA(attempt, resp) ==
    CASE resp \in {"r429", "r500"} -> Continue(RateLimitDelayA(attempt))
      [] resp = "ok" -> Return
      [] resp = "other" -> Raise("HTTPStatusError")
      [] resp = "transport" ->
            IF attempt = MaxRetriesA - 1 THEN Raise("TransportError")
            ELSE Continue(OtherDelayA(attempt))

\* One iteration of the first-hop loop of download_batch: raise_for_status
\* raises inside the try, so the bare except handles it like a transport error
IterB(attempt, resp) ==
    CASE resp \in {"r429", "r500"} -> Continue(RateLimitDelayB(attempt))
      [] resp = "ok" -> Return
      [] resp \in {"other", "transport"} ->
            IF attempt = MaxRetriesB - 1
            THEN Raise(IF resp = "other" THEN "HTTPStatusError" ELSE "TransportError")
            ELSE Continue(ExceptDelayB(attempt))

Iter(im, attempt, resp) ==
    IF im = "aemet" THEN IterA(attempt, resp) ELSE IterB(attempt, resp)
\* (one attempt more than max_retries)
BudgetPlusOne(im) == (IF im = "aemet" THEN MaxRetriesA ELSE MaxRetriesB) + 1
Budget(im) == IF im = "aemet" THEN MaxRetriesA ELSE MaxRetriesB

\* What the loop leaves when every iteration ended in "continue":
\* aemet.py raises after the loop; download_batch goes on with the last
\* response it was given (response is None only if no GET ever returned).
AfterLoop(im, lastStatus) ==
    IF im = "aemet" THEN Raise("FailedAfterRetries")
    ELSE IF lastStatus \in {"r429", "r500", "other"}
         THEN [next |-> "fallthrough", delay |-> 0, err |-> "none"]
         ELSE Raise("NoResponse")

\* A response stream: the first responses, then the same response for ever
Scripts ==
    { [head |-> h, tail |-> t] :
        h \in UNION { [1..n -> Resps] : n \in 0..MaxHead }, t \in Resps }
RespAt(script, attempt) ==
    IF attempt < Len(script.head) THEN script.head[attempt + 1] ELSE script.tail

\* The whole retry loop on a response stream: how it ends and the GETs issued
RECURSIVE RetryLoop(_, _, _, _)
RetryLoop(im, attempt, lastStatus, script) ==
    IF attempt = Budget(im)
    THEN [end |-> AfterLoop(im, lastStatus), gets |-> attempt, status |-> lastStatus]
    ELSE LET resp == RespAt(script, attempt)
             it == Iter(im, attempt, resp)
             seen == IF resp = "transport" THEN lastStatus ELSE resp
         IN  IF it.next = "continue"
             THEN RetryLoop(im, attempt + 1, seen, script)
             ELSE [end |-> it, gets |-> attempt + 1, status |-> seen]


\* ------------------------------------------------------ payloads
Rec(day, station, ver) == [fecha |-> day, indicativo |-> station, ver |-> ver]

\* One record a day for every day the request names
FullPayload(ds, de, ver) == [i \in 1..(de - ds + 1) |-> Rec(ds + i - 1, 1, ver)]
\* Records of two days out of order, two stations, and one without "fecha"
MixedPayload(ds, de, ver) ==
    IF de > ds
    THEN << Rec(ds, 1, ver), Rec(ds + 1, 1, ver), Rec(ds, NumStations, ver),
            Rec(NoFecha, 1, ver) >>
    ELSE << Rec(ds, 1, ver), Rec(ds, NumStations, ver), Rec(NoFecha, 1, ver) >>

\* Interruptions, partial payloads and upstream changes are explored on the
\* ranges of at most MaxShortDay days; the longer ranges get complete
\* payloads, errors and "no data" answers.
ShortRange(endd) == DayOf(endd) <= MaxShortDay

\* The bodies the second response may carry for a request of days ds..de
\* while the upstream content has version ver
Bodies(ds, de, ver, short) ==
    { [valid |-> FALSE, data |-> <<>>],
      [valid |-> TRUE, data |-> FullPayload(ds, de, ver)] }
    \cup (IF short
          THEN { [valid |-> TRUE, data |-> <<>>],
                 [valid |-> TRUE, data |-> MixedPayload(ds, de, ver)] }
          ELSE {})
Metas == {"datos", "nodatos", "notjson"}

\* ------------------------------------------------------ reassembly
\* daily_data: the records grouped by "fecha", keys in first-appearance
\* order (a dict keeps insertion order), records in their batch order
RECURSIVE GroupInto(_, _)
GroupInto(acc, recs) ==
    IF recs = <<>> THEN acc
    ELSE LET r == Head(recs)
             at == { i \in 1..Len(acc) : acc[i].key = r.fecha }
         IN  IF r.fecha = NoFecha THEN GroupInto(acc, Tail(recs))
             ELSE IF at = {}
             THEN GroupInto(Append(acc, [key |-> r.fecha, recs |-> <<r>>]), Tail(recs))
             ELSE LET i == CHOOSE j \in at : TRUE
                  IN  GroupInto([acc EXCEPT ![i].recs = Append(@, r)], Tail(recs))
\* (one group per record: a date met again does not join its first group)
daily_dataUngrouped(batch) ==
    LET HasFecha(r) == r.fecha # NoFecha
        kept == SelectSeq(batch, HasFecha)
    IN  [i \in 1..Len(kept) |-> [key |-> kept[i].fecha, recs |-> << kept[i] >>]]
daily_data(batch) == GroupInto(<<>>, batch)

\* ------------------------------------------------------ compaction: values
\* A JSON string is the sequence of its characters; a value that may be null
\* (None) is a record
None == [null |-> TRUE, val |-> 0]
Some(v) == [null |-> FALSE, val |-> v]
DigitVal ==
    ("0" :> 0) @@ ("1" :> 1) @@ ("2" :> 2) @@ ("3" :> 3) @@ ("4" :> 4) @@
    ("5" :> 5) @@ ("6" :> 6) @@ ("7" :> 7) @@ ("8" :> 8) @@ ("9" :> 9)
IsDigits(q) == q # <<>> /\ \A i \in 1..Len(q) : q[i] \in DOMAIN DigitVal
\* int(str) of a string of digits
RECURSIVE int(_)
int(q) ==
    IF q = <<>> THEN 0
    ELSE 10 * int(SubSeq(q, 1, Len(q) - 1)) + DigitVal[q[Len(q)]]

\* pl.col("fecha").str.to_date(): strict, a string that is no date raises.
\* A date string is the number of its day; a negative one is no date.
BadFecha == -2
to_dateLenient(f) == IF f >= 0 THEN [ok |-> TRUE, val |-> Some(f)]
                     ELSE [ok |-> TRUE, val |-> None]
to_date(f) == IF f >= 0 THEN [ok |-> TRUE, val |-> Some(f)]
              ELSE [ok |-> FALSE, val |-> None]

\* pl.col("altitud").cast(pl.Int32, strict=False): a string that is no
\* number becomes null
cast(a) == IF IsDigits(a) THEN [ok |-> TRUE, val |-> Some(int(a))]
           ELSE [ok |-> TRUE, val |-> None]

\* convert_to_decimal, in arc-seconds: 3600 times the decimal degrees
\* degrees + minutes / 60 + seconds / 3600
convert_to_decimalSouthOnly(coord) ==
    IF coord.null \/ Len(coord.val) < 7 THEN None
    ELSE LET c == coord.val
             body == SubSeq(c, 1, Len(c) - 1)
             decimal == int(SubSeq(body, 1, 2)) * 3600
                          + int(SubSeq(body, 3, 4)) * 60
                          + int(SubSeq(body, 5, Len(body)))
         IN  Some(IF c[Len(c)] = "S" THEN -decimal ELSE decimal)
convert_to_decimal(coord) ==
    IF coord.null \/ Len(coord.val) < 7 THEN None
    ELSE LET c == coord.val
             body == SubSeq(c, 1, Len(c) - 1)
             degrees == int(SubSeq(body, 1, 2))
             minutes == int(SubSeq(body, 3, 4))
             seconds == int(SubSeq(body, 5, Len(body)))
             decimal == degrees * 3600 + minutes * 60 + seconds
         IN  Some(IF c[Len(c)] \in {"S", "W"} THEN -decimal ELSE decimal)

\* df.sort(["fecha", "indicativo"]): the order of two rows
SortKeyLeqStationFirst(a, b) ==
    \/ a.indicativo < b.indicativo
    \/ a.indicativo = b.indicativo /\ a.fecha.val <= b.fecha.val
SortKeyLeq(a, b) ==
    \/ a.fecha.val < b.fecha.val
    \/ a.fecha.val = b.fecha.val /\ a.indicativo <= b.indicativo

\* sort does not keep the order of equal rows (maintain_order is not set):
\* every arrangement in ascending key order is a possible result
RemoveAt(q, i) == SubSeq(q, 1, i - 1) \o SubSeq(q, i + 1, Len(q))
RECURSIVE SortedOrders(_)
SortedOrders(q) ==
    IF q = <<>> THEN { <<>> }
    ELSE LET firsts == { i \in 1..Len(q) :
                           \A j \in 1..Len(q) : SortKeyLeq(q[i], q[j]) }
         IN  UNION { { << q[i] >> \o t : t \in SortedOrders(RemoveAt(q, i)) } :
                     i \in firsts }

\* One row of the frame after the column expressions
ConvertRow(r) ==
    [fecha |-> to_date(r.fecha).val, indicativo |-> r.indicativo,
     altitud |-> cast(r.altitud).val,
     latitud |-> convert_to_decimal(r.latitud),
     longitud |-> convert_to_decimal(r.longitud), raw |-> r]

\* ------------------------------------------------------ state
VARIABLES
    impl,          \* which of the two implementations runs
    end_date,      \* datetime.now() of the run
    upVer,         \* the version of the upstream content
    run,           \* the run's number
    pc,            \* "loop", "fetch", "hop2", "save", "writing", "done",
                   \* "crashed", "aborted"
    current_date,  \* the loop's window start
    batch_end,     \* the window's end
    store,         \* the raw directory: day -> file
    gets,          \* the GETs of the current window, by hop
    windows,       \* the windows this run has examined
    todo,          \* the groups of daily_data not yet handled
    runLog,        \* the last two ended runs, oldest first
    apiLog,        \* window start day -> the resolver's last outcome there
    sameUpstream,  \* every outcome so far repeated the window's previous one
    slept,         \* the run's time.sleep(1.5) calls, in tenths of a second
    fpc,           \* resolver: "idle", "get", "parse", "decode", "done"
    hop,           \* resolver: the request being made, 1 or 2
    attempt,       \* resolver: the retry loop's index
    resps,         \* resolver: the responses of the current hop, in order
    waits,         \* resolver: the sleep after each of them (0: none)
    fgets,         \* resolver: the GETs issued, by hop
    result,        \* resolver: what the call gave its caller
    payload,       \* resolver: the encodings in which the body decoded is JSON
    cpc,           \* compaction: "idle", "glob", "load", "frame", "written", "failed"
    json_files,    \* compaction: the sorted listing of the raw directory
    readLog,       \* compaction: for each file loaded, whether it was complete
    all_data,      \* compaction: the records loaded so far
    dataset,       \* compaction: the rows of the parquet file, once written
    cerr           \* compaction: the exception that ended it

acqVars == << impl, end_date, upVer, run, pc, current_date, batch_end, store,
              gets, windows, todo, runLog, apiLog, sameUpstream, slept >>
fetchVars == << fpc, hop, attempt, resps, waits, fgets, result, payload >>
compVars == << cpc, json_files, readLog, all_data, dataset, cerr >>
vars == << acqVars, fetchVars, compVars >>

EndDates == { d * TicksPerDay + h : d \in 0..MaxEndDay, h \in 0..(TicksPerDay - 1) }
Outcome(kind, data) == [kind |-> kind, data |-> data]
Unfetched == Outcome("unfetched", <<>>)
NoGets == [h1 |-> 0, h2 |-> 0]
FetchIdle ==
    /\ fpc = "idle" /\ hop = 0 /\ attempt = 0
    /\ resps = <<>> /\ waits = <<>> /\ fgets = NoGets
    /\ result = [kind |-> "none", err |-> "none"]
    /\ payload = {}
CompIdle ==
    /\ cpc = "idle" /\ json_files = <<>> /\ readLog = <<>>
    /\ all_data = <<>> /\ dataset = <<>> /\ cerr = "none"

Init ==
    /\ impl \in Impls
    /\ end_date \in EndDates
    /\ upVer = 1
    /\ run = 1
    /\ pc = "loop"
    /\ current_date = start_date
    /\ batch_end = start_date
    /\ store = [d \in Days |-> NoFile]
    /\ gets = NoGets
    /\ windows = <<>>
    /\ todo = <<>>
    /\ runLog = <<>>
    /\ apiLog = [d \in Days |-> Unfetched]
    /\ sameUpstream = TRUE
    /\ slept = 0
    /\ FetchIdle
    /\ CompIdle

\* ------------------------------------------------------ the loop
Present(st) == { d \in Days : st[d].present }

\* The end of a window's iteration: current_date = batch_end + 1 day
\* (after a fetch, the 1.5 s sleep)
\* (the window start left where it was)
AdvanceStay ==
    /\ current_date' = current_date
    /\ pc' = "loop"
    /\ todo' = <<>>
Advance ==
    /\ current_date' = batch_end + timedelta(1)
    /\ pc' = "loop"
    /\ todo' = <<>>

\* "except Exception" of the loop's try: what the resolver and the save
\* raise are Exception subclasses (httpx.HTTPStatusError, httpx.TransportError,
\* Exception, json.JSONDecodeError, OSError)
Exceptions ==
    {"HTTPStatusError", "TransportError", "FailedAfterRetries", "NoResponse",
     "JSONDecodeError", "OSError"}
ExceptHTTPErrorOnly(err) == err \in {"HTTPStatusError", "TransportError"}
ExceptException(err) == err \in Exceptions

\* An exception no handler takes leaves the loop and ends the run
Abort ==
    /\ pc' = "aborted"
    /\ todo' = <<>>
    /\ UNCHANGED << current_date, slept >>
\* time.sleep(1.5) stands after the try statement: it is reached whatever
\* the try did or caught
InterWindowSleep == 15
WindowSleepInTry(err) == IF err = "none" THEN InterWindowSleep ELSE 0
WindowSleep(err) == InterWindowSleep
\* (a window that raised is examined again after the sleep)
AfterWindowRetry(err) ==
    IF err = "none"
    THEN Advance /\ slept' = slept + WindowSleep(err)
    ELSE /\ pc' = "loop"
         /\ todo' = <<>>
         /\ slept' = slept + WindowSleep(err)
         /\ UNCHANGED current_date
\* The end of the try statement: with no error or a caught one the loop
\* sleeps and goes on
AfterWindow(err) ==
    IF err = "none" \/ ExceptException(err)
    THEN Advance /\ slept' = slept + WindowSleep(err)
    ELSE Abort

\* History: a returned first hop carried a metadata body without "datos"
LogMeta(ws, r, meta) ==
    IF r.end.next = "return" /\ meta = "nodatos"
    THEN [ws EXCEPT ![Len(ws)].meta = meta] ELSE ws
\* History: the resolver's outcome for the window
LogOutcome(ws, outcome) ==
    /\ windows' = [ws EXCEPT ![Len(ws)].outcome = outcome.kind]
    /\ apiLog' = [apiLog EXCEPT ![DayOf(current_date)] = outcome]
    /\ sameUpstream' = (sameUpstream /\
            apiLog[DayOf(current_date)] \in {Unfetched, outcome})

\* while current_date < end_date: batch_end, the skip check
Examine ==
    /\ pc = "loop"
    /\ current_date < end_date
    /\ LET bend == BatchEnd(current_date, end_date)
           need == NeedsFetch(impl, current_date, bend, store)
           w == [start |-> current_date, end |-> bend, had |-> Present(store),
                 meta |-> "none",
                 outcome |-> IF need THEN "pending" ELSE "skipped"]
       IN  /\ batch_end' = bend
           /\ windows' = Append(windows, w)
           /\ gets' = NoGets
           /\ IF need
              THEN /\ pc' = "fetch"
                   /\ UNCHANGED current_date
              ELSE /\ pc' = "loop"
                   /\ current_date' = bend + timedelta(1)
    /\ UNCHANGED << impl, end_date, upVer, run, store, todo, runLog, apiLog,
                    sameUpstream, slept, fetchVars, compVars >>

\* The history keeps the last two ended runs, which is what two successive
\* invocations are compared on
EndRun(log, entry) ==
    IF Len(log) < 2 THEN Append(log, entry) ELSE << log[2], entry >>

LoopExit ==
    /\ pc = "loop"
    /\ ~(current_date < end_date)
    /\ pc' = "done"
    /\ runLog' = EndRun(runLog,
            [store |-> store, windows |-> windows, crashed |-> FALSE])
    /\ UNCHANGED << impl, end_date, upVer, run, current_date, batch_end, store,
                    gets, windows, todo, apiLog, sameUpstream, slept, fetchVars,
                    compVars >>

\* ------------------------------------------------------ the resolver
\* daily_weather.py's second hop: one GET and raise_for_status, no loop
DirectGet(resp) ==
    [end |-> CASE resp = "ok" -> Return
               [] resp = "transport" -> Raise("TransportError")
               [] OTHER -> Raise("HTTPStatusError"),
     gets |-> 1, status |-> resp]

\* The ways a hop can end over all response streams, per implementation
FirstHopEndsA == { RetryLoop("aemet", 0, "none", s) : s \in Scripts }
FirstHopEndsB == { RetryLoop("daily", 0, "none", s) : s \in Scripts }
SecondHopEndsB == { DirectGet(RespAt(s, 0)) : s \in Scripts }
FirstHop(im) == IF im = "aemet" THEN FirstHopEndsA ELSE FirstHopEndsB
SecondHop(im) == IF im = "aemet" THEN FirstHopEndsA ELSE SecondHopEndsB

\* (the metadata indexed without the test: a missing "datos" raises KeyError)
MetaOutcomeKeyError(r, meta) ==
    CASE r.end.next = "raise" -> Outcome("error", <<>>)
      [] meta \in {"notjson", "nodatos"} -> Outcome("error", <<>>)
      [] OTHER -> Outcome("datos", <<>>)
\* response.json() and the "datos" test on what the first hop left
MetaOutcome(r, meta) ==
    CASE r.end.next = "raise" -> Outcome("error", <<>>)
      [] meta = "notjson" -> Outcome("error", <<>>)
      [] meta = "nodatos" -> Outcome("nodata", <<>>)
      [] OTHER -> Outcome("datos", <<>>)

\* content.decode("latin-1") never fails; json.loads may
DataOutcome(r, body) ==
    CASE r.end.next = "raise" -> Outcome("error", <<>>)
      [] ~body.valid -> Outcome("error", <<>>)
      [] OTHER -> Outcome("records", body.data)

\* What the two steps of the resolver raise
MetaError(r, meta) ==
    CASE r.end.next = "raise" -> r.end.err
      [] meta = "notjson" -> "JSONDecodeError"
      [] OTHER -> "none"
DataError(r, body) ==
    CASE r.end.next = "raise" -> r.end.err
      [] ~body.valid -> "JSONDecodeError"
      [] OTHER -> "none"

\* First hop: the metadata request for the window's days
FetchMeta ==
    /\ pc = "fetch"
    /\ \E r \in FirstHop(impl), meta \in Metas :
         LET o == MetaOutcome(r, meta)
         IN  /\ (r.end.next = "fallthrough" => meta # "datos")
             /\ gets' = [h1 |-> r.gets, h2 |-> 0]
             /\ IF o.kind = "datos"
                THEN /\ pc' = "hop2"
                     /\ windows' = LogMeta(windows, r, meta)
                     /\ UNCHANGED << current_date, todo, apiLog, sameUpstream,
                                     slept >>
                ELSE /\ AfterWindow(MetaError(r, meta))
                     /\ LogOutcome(LogMeta(windows, r, meta), o)
    /\ UNCHANGED << impl, end_date, upVer, run, batch_end, store, runLog,
                    fetchVars, compVars >>

\* Second hop: the GET of the "datos" URL, decoding, and the test
\* "if batch_data" / "if not batch_data" before the files are saved
FetchData ==
    /\ pc = "hop2"
    /\ \E r \in SecondHop(impl),
          body \in Bodies(DayOf(current_date), DayOf(batch_end), upVer,
                          ShortRange(end_date)) :
         LET o == DataOutcome(r, body)
         IN  /\ gets' = [gets EXCEPT !.h2 = r.gets]
             /\ LogOutcome(windows, o)
             /\ IF o.kind = "records" /\ o.data # <<>>
                THEN /\ pc' = "save"
                     /\ todo' = daily_data(o.data)
                     /\ UNCHANGED << current_date, slept >>
                ELSE AfterWindow(DataError(r, body))
    /\ UNCHANGED << impl, end_date, upVer, run, batch_end, store, runLog,
                    fetchVars, compVars >>

\* ------------------------------------------------------ saving
\* One step of "for date_key, day_records in daily_data.items()": the file
\* exists and is skipped, or it is opened for writing (created, empty)
SaveOverwriting(st, key) == [st EXCEPT ![key] = File(<<>>, FALSE)]
SaveOpen(st, key) ==
    IF exists(st, key) THEN st ELSE [st EXCEPT ![key] = File(<<>>, FALSE)]

SaveNext ==
    /\ pc = "save"
    /\ IF todo = <<>>
       THEN /\ AfterWindow("none")
            /\ UNCHANGED store
       ELSE LET key == Head(todo).key
                st == SaveOpen(store, key)
            IN  /\ store' = st
                /\ IF st = store
                   THEN /\ todo' = Tail(todo)
                        /\ pc' = "save"
                   ELSE /\ pc' = "writing"
                        /\ UNCHANGED todo
                /\ UNCHANGED << current_date, slept >>
    /\ UNCHANGED << impl, end_date, upVer, run, batch_end, gets, windows,
                    runLog, apiLog, sameUpstream, fetchVars, compVars >>

\* json.dump / write_text has written the whole group and the file is closed
WriteFinish ==
    /\ pc = "writing"
    /\ store' = [store EXCEPT ![Head(todo).key] = File(Head(todo).recs, TRUE)]
    /\ todo' = Tail(todo)
    /\ pc' = "save"
    /\ UNCHANGED << impl, end_date, upVer, run, current_date, batch_end, gets,
                    windows, runLog, apiLog, sameUpstream, slept, fetchVars,
                    compVars >>

\* open() or the write raises OSError (disk full, permissions): open has
\* created nothing, a failed write leaves what had reached the disk. The
\* exception leaves the save loop, so the groups not yet handled are given up.
\* (Explored in the first run of a short range; the later runs recover.)
WriteError ==
    /\ pc \in {"save", "writing"}
    /\ ShortRange(end_date)
    /\ run = 1
    /\ todo # <<>>
    /\ pc = "save" => ~exists(store, Head(todo).key)
    /\ IF pc = "writing"
       THEN \E k \in 0..(Len(Head(todo).recs) - 1) :
              store' = [store EXCEPT ![Head(todo).key] =
                          File(SubSeq(Head(todo).recs, 1, k), FALSE)]
       ELSE UNCHANGED store
    /\ windows' = [windows EXCEPT ![Len(windows)].outcome = "ioerror"]
    /\ AfterWindow("OSError")
    /\ UNCHANGED << impl, end_date, upVer, run, batch_end, gets, runLog, apiLog,
                    sameUpstream, fetchVars, compVars >>

\* ------------------------------------------------------ interruption
\* The process is killed and its memory is lost. A file being written keeps
\* what had reached the disk: some proper prefix of the day's records.
\* (Explored in the first run of a short range; the later runs recover.)
Crash ==
    /\ pc \in {"loop", "fetch", "hop2", "save", "writing"}
    /\ ShortRange(end_date)
    /\ run = 1
    /\ pc' = "crashed"
    /\ IF pc = "writing"
       THEN \E k \in 0..(Len(Head(todo).recs) - 1) :
              store' = [store EXCEPT ![Head(todo).key] =
                          File(SubSeq(Head(todo).recs, 1, k), FALSE)]
       ELSE UNCHANGED store
    /\ runLog' = EndRun(runLog,
            [store |-> store', windows |-> <<>>, crashed |-> TRUE])
    /\ current_date' = start_date
    /\ batch_end' = start_date
    /\ gets' = NoGets
    /\ windows' = <<>>
    /\ todo' = <<>>
    /\ slept' = 0
    /\ UNCHANGED << impl, end_date, upVer, run, apiLog, sameUpstream,
                    fetchVars, compVars >>

\* The program is started again over the same range; the upstream content
\* may have changed in between
Restart ==
    /\ pc \in {"done", "crashed"}
    /\ run < MaxRuns
    /\ run' = run + 1
    /\ upVer' \in {upVer} \cup (IF ShortRange(end_date)
                              THEN {Min(upVer + 1, MaxVer)} ELSE {})
    /\ pc' = "loop"
    /\ current_date' = start_date
    /\ batch_end' = start_date
    /\ gets' = NoGets
    /\ windows' = <<>>
    /\ todo' = <<>>
    /\ slept' = 0
    /\ UNCHANGED << impl, end_date, store, runLog, apiLog, sameUpstream,
                    fetchVars, compVars >>

Next ==
    \/ Examine
    \/ LoopExit
    \/ FetchMeta
    \/ FetchData
    \/ SaveNext
    \/ WriteFinish
    \/ WriteError
    \/ Crash
    \/ Restart

Spec == Init /\ [][Next]_vars

\* ------------------------------------------------------ one run, any store
\* One invocation over a raw directory that earlier runs have filled in any
\* way: empty, complete, one window only, every other day
ArtifactSets ==
    { {}, Days, { d \in Days : d < BATCH_SIZE }, { d \in Days : d >= BATCH_SIZE },
      { d \in Days : d % 2 = 1 } }
StoreOf(P) ==
    [d \in Days |-> IF d \in P THEN File(<< Rec(d, 1, 1) >>, TRUE) ELSE NoFile]

InitLoop ==
    /\ impl \in Impls
    /\ end_date \in EndDates
    /\ upVer = 1
    /\ run = 1
    /\ pc = "loop"
    /\ current_date = start_date
    /\ batch_end = start_date
    /\ store \in { StoreOf(P) : P \in ArtifactSets }
    /\ gets = NoGets
    /\ windows = <<>>
    /\ todo = <<>>
    /\ runLog = <<>>
    /\ apiLog = [d \in Days |-> Unfetched]
    /\ sameUpstream = TRUE
    /\ slept = 0
    /\ FetchIdle
    /\ CompIdle

\* The steps of the program itself
LoopStep ==
    \/ Examine
    \/ LoopExit
    \/ FetchMeta
    \/ FetchData
    \/ SaveNext
    \/ WriteFinish

NextLoop ==
    \/ LoopStep
    \/ WriteError

\* The interpreter runs the program's next statement: a response, a status
\* or a timeout comes for every GET (httpx.Client(timeout=30.0)) and every
\* sleep is finite
SpecLoop == InitLoop /\ [][NextLoop]_vars /\ WF_vars(LoopStep)

\* ------------------------------------------------------ one resolver call
\* _download_batch_data (aemet.py) / download_batch (daily_weather.py),
\* one GET at a time
InitFetch ==
    /\ impl \in Impls
    /\ end_date = start_date
    /\ upVer = 1
    /\ run = 1
    /\ pc = "idle"
    /\ current_date = start_date
    /\ batch_end = start_date
    /\ store = [d \in Days |-> NoFile]
    /\ gets = NoGets
    /\ windows = <<>>
    /\ todo = <<>>
    /\ runLog = <<>>
    /\ apiLog = [d \in Days |-> Unfetched]
    /\ sameUpstream = TRUE
    /\ slept = 0
    /\ fpc = "get" /\ hop = 1 /\ attempt = 0
    /\ resps = <<>> /\ waits = <<>> /\ fgets = NoGets
    /\ result = [kind |-> "none", err |-> "none"]
    /\ payload = {}
    /\ CompIdle

\* The query parameters of the GET of a hop: the first carries the API key
\* (the dates are in its path), the second none
QueryParams(im, h) == IF h = 1 THEN {"api_key"} ELSE {}
\* The hop is made by a retry loop (the second hop of download_batch is not)
InLoop == impl = "aemet" \/ hop = 1
\* The status of the last response the loop was given
RECURSIVE LastStatus(_)
LastStatus(rs) ==
    IF rs = <<>> THEN "none"
    ELSE IF rs[Len(rs)] # "transport" THEN rs[Len(rs)]
    ELSE LastStatus(SubSeq(rs, 1, Len(rs) - 1))

Finish(kind, err) ==
    /\ fpc' = "done"
    /\ result' = [kind |-> kind, err |-> err]
GotResponse ==
    /\ fpc' = IF hop = 1 THEN "parse" ELSE "decode"
    /\ UNCHANGED result

\* One GET answered by resp, and what the code does with it
Get(resp) ==
    /\ fpc = "get"
    /\ resps' = Append(resps, resp)
    /\ fgets' = IF hop = 1 THEN [fgets EXCEPT !.h1 = @ + 1]
                ELSE [fgets EXCEPT !.h2 = @ + 1]
    /\ attempt' = attempt + 1
    /\ IF InLoop
       THEN LET it == Iter(impl, attempt, resp)
                after == AfterLoop(impl, LastStatus(resps'))
            IN  /\ waits' = Append(waits, it.delay)
                /\ CASE it.next = "return" -> GotResponse
                     [] it.next = "raise" -> Finish("raise", it.err)
                     [] it.next = "continue" /\ attempt + 1 < Budget(impl) ->
                            UNCHANGED << fpc, result >>
                     [] OTHER ->
                            IF after.next = "raise"
                            THEN Finish("raise", after.err)
                            ELSE GotResponse
       ELSE LET r == DirectGet(resp)
            IN  /\ waits' = Append(waits, 0)
                /\ IF r.end.next = "return" THEN GotResponse
                   ELSE Finish("raise", r.end.err)
    /\ UNCHANGED << acqVars, compVars, hop, payload >>

GetOk == Get("ok")
Get429 == Get("r429")
Get500 == Get("r500")
GetOther == Get("other")
GetTransport == Get("transport")

\* response.json() and the test "datos" not in response_data
ParseMeta ==
    /\ fpc = "parse"
    /\ \E meta \in Metas :
         /\ (LastStatus(resps) # "ok" => meta # "datos")
         /\ CASE meta = "notjson" ->
                    /\ Finish("raise", "JSONDecodeError")
                    /\ UNCHANGED << hop, attempt, resps, waits >>
              [] meta = "nodatos" ->
                    /\ Finish("nodata", "none")
                    /\ UNCHANGED << hop, attempt, resps, waits >>
              [] OTHER ->
                    /\ fpc' = "get"
                    /\ hop' = 2
                    /\ attempt' = 0
                    /\ resps' = <<>>
                    /\ waits' = <<>>
                    /\ UNCHANGED result
    /\ UNCHANGED << acqVars, compVars, fgets, payload >>

\* The bytes of a body may be JSON text when decoded in one encoding and
\* not in another
Encodings == {"latin-1", "utf-8"}
\* The encodings the resolver tries, in order
Candidates == << "latin-1" >>
\* content.decode(...) and json.loads: decoding as latin-1 never fails,
\* json.loads raises on what is not JSON text
Decodes(parses) == \E i \in 1..Len(Candidates) : Candidates[i] \in parses

\* content.decode("latin-1") and json.loads
Decode ==
    /\ fpc = "decode"
    /\ \E parses \in SUBSET Encodings :
         /\ payload' = parses
         /\ IF Decodes(parses) THEN Finish("records", "none")
            ELSE Finish("raise", "JSONDecodeError")
    /\ UNCHANGED << acqVars, compVars, hop, attempt, resps, waits, fgets >>

NextFetch ==
    \/ GetOk
    \/ Get429
    \/ Get500
    \/ GetOther
    \/ GetTransport
    \/ ParseMeta
    \/ Decode

SpecFetch == InitFetch /\ [][NextFetch]_vars

\* ------------------------------------------------------ compaction
\* process_aemet_data (aemet.py) / process_to_parquet (daily_weather.py)
\* over a raw directory that a save loop may be writing to
Chars(a, b, c, d, e, f, g) == << a, b, c, d, e, f, g >>
\* The station fields of the records the directory may hold: two records of
\* one station, the coordinates of each hemisphere, a short and a missing one
Templates ==
    { [indicativo |-> 2, altitud |-> << "5", "2" >>,
       latitud |-> Some(Chars("4", "1", "5", "3", "0", "0", "N")),
       longitud |-> Some(Chars("0", "3", "5", "5", "0", "0", "W"))],
      [indicativo |-> 1, altitud |-> << "n", "d" >>,
       latitud |-> Some(Chars("1", "2", "3", "4", "5", "6", "S")),
       longitud |-> Some(<< "4", "1", "5", "3", "N" >>)],
      [indicativo |-> 2, altitud |-> << "7" >>,
       latitud |-> None,
       longitud |-> Some(Chars("1", "2", "3", "4", "5", "6", "E"))] }
CompRec(d, t) ==
    [fecha |-> d, indicativo |-> t.indicativo, altitud |-> t.altitud,
     latitud |-> t.latitud, longitud |-> t.longitud]
\* A day's file holds one or two records of its date
DayContents(d) ==
    { << CompRec(d, t) >> : t \in Templates }
    \cup { << CompRec(d, t), CompRec(d, u) >> : t \in Templates, u \in Templates }
DayFiles(d) == { NoFile } \cup { File(q, TRUE) : q \in DayContents(d) }
StationOne == CHOOSE t \in Templates : t.indicativo = 1
\* A file of records whose "fecha" is no date
BadFiles == { NoFile, File(<< CompRec(BadFecha, StationOne) >>, TRUE) }
CompDays == 0..MaxCompDay
\* The groups a save loop running beside the compaction still has to write
Todos == { <<>>, << [key |-> 0, recs |-> << CompRec(0, StationOne) >>] >> }

InitCompact ==
    /\ impl \in Impls
    /\ end_date = timedelta(MaxCompDay + 1)
    /\ upVer = 1
    /\ run = 1
    /\ pc = "save"
    /\ current_date = start_date
    /\ batch_end = timedelta(MaxCompDay)
    /\ \E f \in [CompDays -> UNION { DayFiles(d) : d \in CompDays }],
          b \in BadFiles :
         /\ \A d \in CompDays : f[d] \in DayFiles(d)
         /\ store = [d \in Days \cup {BadFecha} |->
                        IF d \in CompDays THEN f[d]
                        ELSE IF d = BadFecha THEN b ELSE NoFile]
    /\ gets = NoGets
    /\ windows = <<>>
    /\ todo \in Todos
    /\ runLog = <<>>
    /\ apiLog = [d \in Days |-> Unfetched]
    /\ sameUpstream = TRUE
    /\ slept = 0
    /\ FetchIdle
    /\ cpc = "glob" /\ json_files = <<>> /\ readLog = <<>>
    /\ all_data = <<>> /\ dataset = <<>> /\ cerr = "none"

\* sorted(raw_dir.glob("*.json")): the names of the files there are, ascending
RECURSIVE Ascending(_)
Ascending(S) ==
    IF S = {} THEN <<>>
    ELSE LET m == CHOOSE x \in S : \A y \in S : x <= y
         IN  << m >> \o Ascending(S \ {m})
Glob ==
    /\ cpc = "glob"
    /\ json_files' = Ascending({ d \in DOMAIN store : store[d].present })
    /\ cpc' = "load"
    /\ UNCHANGED << acqVars, fetchVars, readLog, all_data, dataset, cerr >>

\* One turn of the loop over json_files: open, json.load, all_data.extend.
\* A file whose write has not ended holds no complete JSON text.
LoadFile ==
    /\ cpc = "load"
    /\ IF Len(readLog) = Len(json_files)
       THEN /\ cpc' = "frame"
            /\ UNCHANGED << readLog, all_data, cerr >>
       ELSE LET file == store[json_files[Len(readLog) + 1]]
            IN  /\ readLog' = Append(readLog, file.complete)
                /\ IF file.complete
                   THEN /\ all_data' = all_data \o file.recs
                        /\ UNCHANGED << cpc, cerr >>
                   ELSE /\ cpc' = "failed"
                        /\ cerr' = "JSONDecodeError"
                        /\ UNCHANGED all_data
    /\ UNCHANGED << acqVars, fetchVars, json_files, dataset >>

\* pl.DataFrame(all_data), the column expressions, sort and write_parquet.
\* A frame made of no records has no column "fecha".
Compact ==
    /\ cpc = "frame"
    /\ IF all_data = <<>>
       THEN /\ cpc' = "failed" /\ cerr' = "ColumnNotFoundError"
            /\ UNCHANGED dataset
       ELSE IF \E i \in 1..Len(all_data) :
                  ~to_date(all_data[i].fecha).ok \/ ~cast(all_data[i].altitud).ok
       THEN /\ cpc' = "failed" /\ cerr' = "ComputeError"
            /\ UNCHANGED dataset
       ELSE /\ dataset' \in SortedOrders(
                    [i \in 1..Len(all_data) |-> ConvertRow(all_data[i])])
            /\ cpc' = "written"
            /\ UNCHANGED cerr
    /\ UNCHANGED << acqVars, fetchVars, json_files, readLog, all_data >>

NextCompact ==
    \/ Glob
    \/ LoadFile
    \/ Compact
    \/ SaveNext
    \/ WriteFinish

SpecCompact == InitCompact /\ [][NextCompact]_vars

\* ====================================================== properties
Last(seq) == seq[Len(seq)]
\* The calendar days of a window: those from the day of its start to the
\* day of its end, the days the request names
WindowDays(w) == { d \in Days : DayOf(w.start) <= d /\ d <= DayOf(w.end) }
\* The calendar days that lie wholly in [start_date, end_date)
RangeDays ==
    { d \in Days : start_date <= timedelta(d) /\ timedelta(d + 1) <= end_date }
MissingIn(w, present) == \E d \in WindowDays(w) : d \notin present

\* C1: the windows of a run are pairwise disjoint, hold at most 15 calendar
\* days each, lie in the range, and once the loop has ended every calendar
\* day of the range is in one of them.
C1_WindowsCoverRange ==
    /\ \A i \in 1..Len(windows) :
         /\ Cardinality(WindowDays(windows[i])) <= 15
         /\ WindowDays(windows[i]) \subseteq RangeDays
         /\ \A j \in 1..Len(windows) :
              i # j => WindowDays(windows[i]) \cap WindowDays(windows[j]) = {}
    /\ pc = "done" =>
         \A d \in RangeDays : \E i \in 1..Len(windows) : d \in WindowDays(windows[i])
W1_TwoWindowsDone ==
    /\ pc = "done"
    /\ Len(windows) = 2
    /\ Cardinality(WindowDays(windows[1])) = 15
    /\ WindowDays(windows[2]) # {}

\* C2: a window gets a GET if and only if one of its days had no file when
\* the window was examined; a window whose days all had files gets none.
C2_FetchIffMissing ==
    windows # <<>> =>
        LET w == Last(windows)
            missing == MissingIn(w, w.had)
        IN  /\ (gets.h1 + gets.h2 > 0) => missing
            /\ (~missing) => w.outcome = "skipped"
            /\ (missing /\ pc \in {"loop", "done"}) => gets.h1 > 0
W2_SkipThenFetch ==
    /\ run = 2
    /\ Len(windows) = 2
    /\ windows[1].outcome = "skipped"
    /\ WindowDays(windows[1]) # {}
    /\ windows[2].outcome = "error"
    /\ gets.h1 > 0

\* Two consecutive complete runs, the later one being the last run so far,
\* in which the upstream answered every window as it had before
NoWriteError(ws) == \A i \in 1..Len(ws) : ws[i].outcome # "ioerror"
TwoSameRuns(k) ==
    /\ k + 1 = Len(runLog)
    /\ ~runLog[k].crashed
    /\ ~runLog[k + 1].crashed
    /\ NoWriteError(runLog[k].windows)
    /\ NoWriteError(runLog[k + 1].windows)
    /\ sameUpstream

\* C3 as stated: the second run leaves the same files and fetches nothing.
C3_SecondRunFetchesNothing ==
    \A k \in 1..(Len(runLog) - 1) :
        TwoSameRuns(k) =>
            /\ runLog[k + 1].store = runLog[k].store
            /\ \A i \in 1..Len(runLog[k + 1].windows) :
                 runLog[k + 1].windows[i].outcome = "skipped"

\* C3 (amended): the second run leaves the same files as the first, and it
\* fetches exactly the windows that still hold a day without a file after
\* the first run.
C3_SecondRunSameStore ==
    \A k \in 1..(Len(runLog) - 1) :
        TwoSameRuns(k) =>
            /\ runLog[k + 1].store = runLog[k].store
            /\ \A i \in 1..Len(runLog[k + 1].windows) :
                 LET w == runLog[k + 1].windows[i]
                 IN  (w.outcome # "skipped")
                        <=> MissingIn(w, Present(runLog[k].store))
W3_SecondRunRefetches ==
    /\ Len(runLog) = 2
    /\ TwoSameRuns(1)
    /\ Len(runLog[2].windows) = 2
    /\ runLog[2].windows[1].outcome = "skipped"
    /\ runLog[2].windows[2].outcome = "nodata"
    /\ Present(runLog[1].store) # {}

\* C4: a file that exists and is not the one the save loop is creating at
\* this moment is never changed or removed by any step.
C4_WriteOnce ==
    [][ \A d \in Days :
          (store[d].present /\ ~(pc = "writing" /\ Head(todo).key = d))
              => store'[d] = store[d] ]_vars
W4_BatchRecoversDay ==
    /\ pc = "save"
    /\ todo # <<>>
    /\ store[Head(todo).key].present
    /\ store[Head(todo).key].complete
    /\ store[Head(todo).key].recs # Head(todo).recs

\* C5 as stated: after an interruption every file of the directory holds
\* the complete record group of its day.
C5_NoPartialFileAfterCrash ==
    pc = "crashed" => \A d \in Days : store[d].present => store[d].complete

\* ------------------------------------------------------ the retry loops
Base == 2
RECURSIVE SumSeq(_)
SumSeq(q) == IF q = <<>> THEN 0 ELSE Head(q) + SumSeq(Tail(q))
LoopErrors == {"HTTPStatusError", "TransportError", "FailedAfterRetries", "NoResponse"}
RateLimitDelay(im, a) ==
    IF im = "aemet" THEN RateLimitDelayA(a) ELSE RateLimitDelayB(a)

\* C6: in a retry loop a 429 or 500 at attempt index i is followed by a
\* sleep of 2 * 2^i seconds and, while attempts remain, by another attempt;
\* after 429, 429, 429, 200 the loop has handed over the fourth response
\* having slept 2 + 4 + 8 seconds.
C6_RateLimitBackoff ==
    InLoop =>
        /\ \A i \in 1..Len(resps) :
             resps[i] \in {"r429", "r500"} =>
                /\ waits[i] = Base * 2^(i - 1)
                /\ i < Budget(impl) => (Len(resps) > i \/ fpc = "get")
        /\ resps = << "r429", "r429", "r429", "ok" >> =>
                /\ SumSeq(waits) = 2 + 4 + 8
                /\ (IF hop = 1 THEN fgets.h1 ELSE fgets.h2) = 4
                /\ fpc # "get"
                /\ result.err \notin LoopErrors
W6_Three429ThenOk ==
    /\ impl = "aemet"
    /\ hop = 1
    /\ resps = << "r429", "r429", "r429", "ok" >>
    /\ waits = << 2, 4, 8, 0 >>
    /\ fpc = "parse"

\* C7 as stated: in both retry loops a status that is neither 2xx nor 429
\* nor 500 ends the call at once with an HTTP status error: no sleep and no
\* further GET.
C7_OtherStatusFailsAtOnce ==
    InLoop =>
        \A i \in 1..Len(resps) :
            resps[i] = "other" =>
                /\ i = Len(resps)
                /\ waits[i] = 0
                /\ fpc = "done"
                /\ result = [kind |-> "raise", err |-> "HTTPStatusError"]

\* Every attempt of the budget was made and each ended in a 429, a 500 or a
\* transport failure
Exhausted ==
    /\ InLoop
    /\ Len(resps) = Budget(impl)
    /\ \A i \in 1..Len(resps) : resps[i] \in {"r429", "r500", "transport"}

\* C8 as stated: a call whose attempts are exhausted ends in a failure given
\* to the caller, never in records or in "no data".
C8_ExhaustedFails ==
    (Exhausted /\ fpc = "done") => result.kind = "raise"

\* C9: in a retry loop a transport failure at attempt index i is followed by
\* a sleep of 2^i seconds, shorter than the rate-limit sleep of that index,
\* and by another attempt; on the last attempt of the budget, whatever the
\* earlier attempts met, it ends the call with that transport error. No loop
\* makes more attempts than its budget.
C9_TransportBackoff ==
    InLoop =>
        /\ Len(resps) <= Budget(impl)
        /\ \A i \in 1..Len(resps) :
             resps[i] = "transport" =>
                IF i < Budget(impl)
                THEN /\ waits[i] = 1 * 2^(i - 1)
                     /\ waits[i] < RateLimitDelay(impl, i - 1)
                     /\ (Len(resps) > i \/ fpc = "get")
                ELSE /\ waits[i] = 0
                     /\ fpc = "done"
                     /\ result = [kind |-> "raise", err |-> "TransportError"]
W9_TransportOnLastAttempt ==
    /\ impl = "aemet"
    /\ Len(resps) = 8
    /\ resps[1] = "transport"
    /\ resps[2] = "r429"
    /\ resps[8] = "transport"
    /\ SumSeq(waits) = 1 + 4 + (4 + 8 + 16 + 32 + 64)
    /\ result.err = "TransportError"

\* C10: when the first hop returned a metadata body without "datos", the
\* window's outcome is "no data", the second GET is not issued, no file is
\* created, and the loop has gone on to the day after the window's end.
C10_NoDatosIsNoData ==
    (windows # <<>> /\ Last(windows).meta = "nodatos") =>
        /\ Last(windows).outcome = "nodata"
        /\ gets.h2 = 0
        /\ Present(store) = Last(windows).had
        /\ pc \in {"loop", "done"}
        /\ current_date = Last(windows).end + timedelta(1)
W10_NoDataThenNextWindow ==
    /\ Len(windows) = 2
    /\ windows[1].meta = "nodatos"
    /\ windows[1].outcome = "nodata"
    /\ windows[2].outcome = "records"
    /\ Present(store) = WindowDays(windows[2])

\* ------------------------------------------------------ reassembly
\* The records of a batch dated d, in the order the batch has them
WithFecha(batch, d) ==
    LET Dated(r) == r.fecha = d
    IN  SelectSeq(batch, Dated)

\* C11: once a batch of records has been saved, every day that had no file
\* when the window was examined has a file exactly if the batch holds a
\* record of that date, and the file holds exactly the batch's records of
\* that date in batch order; no file ever holds a record without "fecha".
C11_Reassembly ==
    /\ \A d \in Days : \A i \in 1..Len(store[d].recs) :
            store[d].recs[i].fecha = d
    /\ (windows # <<>> /\ Last(windows).outcome = "records"
            /\ pc \in {"loop", "done"}) =>
         LET w == Last(windows)
             batch == apiLog[DayOf(w.start)].data
         IN  \A d \in Days \ w.had :
                store[d] = IF WithFecha(batch, d) = <<>> THEN NoFile
                           ELSE File(WithFecha(batch, d), TRUE)
W11_TwoDaysThreeRecords ==
    /\ pc \in {"loop", "done"}
    /\ windows # <<>>
    /\ Last(windows).outcome = "records"
    /\ Last(windows).had = {}
    /\ Cardinality(Present(store)) = 2
    /\ Len(apiLog[0].data) = 4
    /\ Len(store[0].recs) = 2
    /\ store[0].recs[1].indicativo # store[0].recs[2].indicativo
    /\ Len(store[1].recs) = 1

\* ------------------------------------------------------ failure isolation
\* C12: no step ends the run because of a window's error; the step in which
\* a window ends in an error (of the resolver or of the save) leaves the
\* loop at the day after the window's end, every file that existed still
\* there and unchanged, and the file being written still present.
C12_WindowErrorIsolated ==
    [][ /\ pc' # "aborted"
        /\ (windows' # <<>> /\ windows' # windows
               /\ Last(windows').outcome \in {"error", "ioerror"}) =>
             /\ pc' = "loop"
             /\ current_date' = batch_end + timedelta(1)
             /\ \A d \in Days :
                   (store[d].present /\ ~(pc = "writing" /\ Head(todo).key = d))
                       => store'[d] = store[d]
             /\ pc = "writing" => store'[Head(todo).key].present ]_vars
W12_WriteErrorAfterSavedDay ==
    /\ pc = "done"
    /\ windows # <<>>
    /\ Last(windows).outcome = "ioerror"
    /\ \E d \in Days \ Last(windows).had : store[d].complete
    /\ \E d \in Days \ Last(windows).had :
           store[d].present /\ ~store[d].complete

\* ------------------------------------------------------ compaction
\* The records of the listed files, in the order of the listing
RECURSIVE ConcatFiles(_, _)
ConcatFiles(names, st) ==
    IF names = <<>> THEN <<>>
    ELSE st[Head(names)].recs \o ConcatFiles(Tail(names), st)
Count(x, q) == Cardinality({ i \in 1..Len(q) : q[i] = x })
RawRows == [i \in 1..Len(dataset) |-> dataset[i].raw]

\* C13: the rows of a written dataset are the records of the files of the
\* directory, each as many times as the files hold it (nothing added,
\* nothing removed, duplicates kept), in ascending order of date and, within
\* a date, of station identifier. A compaction that loaded at least one
\* record, all of them with a date, from files whose writes had ended,
\* writes its dataset.
C13_CompactionSortedAll ==
    /\ cpc = "failed" =>
          \/ \E i \in 1..Len(readLog) : ~readLog[i]
          \/ all_data = <<>>
          \/ \E i \in 1..Len(all_data) : all_data[i].fecha = BadFecha
    /\ cpc = "written" =>
        LET input == ConcatFiles(json_files, store)
        IN  /\ Len(dataset) = Len(input)
            /\ \A i \in 1..Len(input) :
                  Count(input[i], RawRows) = Count(input[i], input)
            /\ \A i \in 1..Len(dataset) :
                  /\ dataset[i].fecha = Some(dataset[i].raw.fecha)
                  /\ dataset[i].indicativo = dataset[i].raw.indicativo
            /\ \A i \in 1..Len(dataset) : \A j \in (i + 1)..Len(dataset) :
                  \/ dataset[i].raw.fecha < dataset[j].raw.fecha
                  \/ /\ dataset[i].raw.fecha = dataset[j].raw.fecha
                     /\ dataset[i].raw.indicativo <= dataset[j].raw.indicativo
W13_TwoDatesTwoStationsDuplicate ==
    /\ cpc = "written"
    /\ Len(json_files) = 2
    /\ Len(dataset) = 4
    /\ RawRows # ConcatFiles(json_files, store)
    /\ dataset[1].raw.fecha = dataset[2].raw.fecha
    /\ dataset[1].indicativo < dataset[2].indicativo
    /\ dataset[3].raw.fecha = dataset[4].raw.fecha
    /\ dataset[3].indicativo = dataset[4].indicativo
    /\ dataset[3] # dataset[4]

\* The (date, station) pair of a record
DateStation(r) == << r.fecha, r.indicativo >>
\* C22 as stated: a written dataset has exactly one row for each
\* (date, station) pair of the records of the files: every pair of the
\* files is in it, and no two of its rows have the same pair.
C22_OneRowPerDateStation ==
    cpc = "written" =>
        LET input == ConcatFiles(json_files, store)
        IN  /\ { DateStation(RawRows[i]) : i \in 1..Len(RawRows) }
                  = { DateStation(input[i]) : i \in 1..Len(input) }
            /\ \A i \in 1..Len(dataset) : \A j \in 1..Len(dataset) :
                  i # j => DateStation(RawRows[i]) # DateStation(RawRows[j])

\* What a JSON "altitud" string is as a 32-bit integer column value
AltitudExpected(a) ==
    CASE a = << "5", "2" >> -> Some(52)
      [] a = << "7" >> -> Some(7)
      [] OTHER -> None

\* C14: when a loaded record has a "fecha" that is no date no dataset is
\* written and, once the frame is processed, the compaction has failed; an
\* "altitud" that is no number never fails the compaction: the row is kept
\* and its altitud is null.
C14_CompactionErrorPolicy ==
    /\ (\E i \in 1..Len(all_data) : all_data[i].fecha = BadFecha) =>
          /\ cpc \in {"load", "frame", "failed"}
          /\ dataset = <<>>
    /\ cerr = "ComputeError" =>
          \E i \in 1..Len(all_data) : all_data[i].fecha = BadFecha
    /\ cpc = "failed" => dataset = <<>>
    /\ cpc = "written" =>
          /\ Len(dataset) = Len(all_data)
          /\ \A i \in 1..Len(dataset) :
                dataset[i].altitud = AltitudExpected(dataset[i].raw.altitud)
W14_NullAltitudKept ==
    /\ cpc = "written"
    /\ \E i \in 1..Len(dataset) :
          dataset[i].raw.altitud = << "n", "d" >> /\ dataset[i].altitud = None
    /\ \E i \in 1..Len(dataset) : dataset[i].altitud = Some(52)

\* ------------------------------------------------------ coordinates
\* DDMMSS read digit by digit, in arc-seconds
ArcSeconds(c) ==
    DigitVal[c[1]] * 36000 + DigitVal[c[2]] * 3600 + DigitVal[c[3]] * 600
      + DigitVal[c[4]] * 60 + DigitVal[c[5]] * 10 + DigitVal[c[6]]
Converted(raw, out) ==
    /\ (raw.null \/ Len(raw.val) < 7) => out = None
    /\ (~raw.null /\ Len(raw.val) = 7) =>
          out = Some(IF raw.val[7] \in {"S", "W"} THEN 0 - ArcSeconds(raw.val)
                     ELSE ArcSeconds(raw.val))
    /\ raw = Some(Chars("4", "1", "5", "3", "0", "0", "N")) =>
          out = Some(41 * 3600 + 53 * 60)
    /\ raw = Some(Chars("0", "3", "5", "5", "0", "0", "W")) =>
          out = Some(0 - (3 * 3600 + 55 * 60))

\* C15: convert_to_decimal gives a DDMMSSH string 3600*DD + 60*MM + SS
\* arc-seconds (degrees + minutes/60 + seconds/3600 degrees), negated exactly
\* for the hemispheres S and W; "415300N" gives 41 + 53/60 and "035500W"
\* -(3 + 55/60); a missing value and a string of fewer than 7 characters
\* give the missing value.
C15_CoordinateConversion ==
    cpc = "written" =>
        \A i \in 1..Len(dataset) :
            /\ Converted(dataset[i].raw.latitud, dataset[i].latitud)
            /\ Converted(dataset[i].raw.longitud, dataset[i].longitud)
W15_EveryKindOfCoordinate ==
    /\ cpc = "written"
    /\ \E i \in 1..Len(dataset) :
          /\ dataset[i].raw.latitud = Some(Chars("4", "1", "5", "3", "0", "0", "N"))
          /\ dataset[i].latitud = Some(150780)
          /\ dataset[i].longitud = Some(0 - 14100)
    /\ \E i \in 1..Len(dataset) :
          /\ dataset[i].latitud = Some(0 - 45296)
          /\ Len(dataset[i].raw.longitud.val) = 5
          /\ dataset[i].longitud = None
    /\ \E i \in 1..Len(dataset) :
          /\ dataset[i].raw.latitud = None
          /\ dataset[i].latitud = None
          /\ dataset[i].longitud = Some(45296)

\* ------------------------------------------------------ interleaving
\* C16 as stated: every file a compaction loads while a save loop is at work
\* on the same directory is a file whose write has ended.
C16_CompactionReadsFinalized ==
    \A i \in 1..Len(readLog) : readLog[i]

\* ------------------------------------------------------ window bounds
\* C17 as stated: every window the loop makes has start <= end and
\* end - start <= 14 days, whatever the time of day of the range's end.
C17_WindowBounds ==
    \A i \in 1..Len(windows) :
        /\ windows[i].start <= windows[i].end
        /\ windows[i].end - windows[i].start <= timedelta(BATCH_SIZE - 1)

\* ------------------------------------------------------ decoding
\* C18 as stated: the second response's body is resolved to records when it
\* is JSON text in the primary or in a fallback encoding, and the resolver
\* fails with a decoding error only when it is JSON in none of them.
C18_DecodingFallback ==
    (fpc = "done" /\ hop = 2
        /\ (result.kind = "records" \/ result.err = "JSONDecodeError")) =>
        (result.kind = "records" <=> payload # {})

\* ------------------------------------------------------ the second hop
\* C19 as stated: in both resolvers the GET of the "datos" URL carries no
\* query parameter and is retried: a 429, a 500 or a transport failure
\* before the last attempt of the budget is followed by a sleep and by
\* another attempt.
C19_SecondHopRetried ==
    hop = 2 =>
        /\ QueryParams(impl, hop) = {}
        /\ \A i \in 1..Len(resps) :
              (resps[i] \in {"r429", "r500", "transport"} /\ i < Budget(impl)) =>
                  /\ waits[i] > 0
                  /\ (Len(resps) > i \/ fpc = "get")

\* ------------------------------------------------------ inter-window delay
\* The windows of the run for which a fetch was attempted and has ended
FetchedAndEnded ==
    { i \in 1..Len(windows) :
        /\ windows[i].outcome # "skipped"
        /\ (i < Len(windows) \/ pc \in {"loop", "done"}) }

\* C20: the loop has slept 1.5 seconds once for every window it has tried
\* to fetch and ended, whatever that window's outcome, so before the next
\* window is examined; only the window the loop is in can have a fetch
\* under way.
C20_InterWindowDelay ==
    /\ slept = 15 * Cardinality(FetchedAndEnded)
    /\ \A i \in 1..(Len(windows) - 1) : windows[i].outcome # "pending"
    /\ pc \in {"fetch", "hop2", "save", "writing"} =>
          (windows # <<>> /\ Last(windows).outcome \in {"pending", "records"})
W20_SleepBetweenRequests ==
    /\ Len(windows) = 2
    /\ windows[1].outcome = "error"
    /\ windows[2].outcome = "pending"
    /\ pc = "hop2"
    /\ gets.h1 > 0
    /\ slept = 15

\* ------------------------------------------------------ GETs of a call
\* C23: whatever the responses, a retry loop issues at most 8 GETs in
\* aemet.py and at most 5 in download_batch, whose second hop is one GET;
\* so one resolver call, which is what a window makes, issues at most 16
\* GETs in aemet.py.
C23_GetBudget ==
    /\ Len(resps) = (IF hop = 1 THEN fgets.h1 ELSE fgets.h2)
    /\ impl = "aemet" =>
          /\ fgets.h1 <= 8
          /\ fgets.h2 <= 8
          /\ fgets.h1 + fgets.h2 <= 16
    /\ impl = "daily" =>
          /\ fgets.h1 <= 5
          /\ fgets.h2 <= 1
W23_SixteenGets ==
    /\ impl = "aemet"
    /\ fpc = "done"
    /\ fgets = [h1 |-> 8, h2 |-> 8]
    /\ result.err = "FailedAfterRetries"
    /\ \E i, j, k \in 1..Len(resps) :
          resps[i] = "r429" /\ resps[j] = "r500" /\ resps[k] = "transport"

\* ------------------------------------------------------ no retry of a window
\* The window's fetch has ended without a record: it raised, the API said
\* "no data", or the body was an empty list
EndedEmpty(i) ==
    /\ (i < Len(windows) \/ pc \in {"loop", "done"})
    /\ \/ windows[i].outcome \in {"error", "nodata"}
       \/ /\ windows[i].outcome = "records"
          /\ apiLog[DayOf(windows[i].start)].data = <<>>

\* C24: the windows a run has examined have strictly increasing starts, so
\* no window is examined, and hence fetched, twice in a run; and the days
\* that had no file when a window was examined still have none for the rest
\* of the run if the window's fetch raised or gave no record.
C24_NoRetryInRun ==
    /\ \A i \in 1..Len(windows) : \A j \in (i + 1)..Len(windows) :
          windows[i].start < windows[j].start
    /\ \A i \in 1..Len(windows) :
          EndedEmpty(i) =>
              \A d \in WindowDays(windows[i]) \ windows[i].had :
                  ~store[d].present
W24_FailedWindowLeftBehind ==
    /\ pc = "done"
    /\ Len(windows) = 2
    /\ windows[1].outcome = "error"
    /\ windows[2].outcome = "records"
    /\ \A d \in WindowDays(windows[1]) : ~store[d].present
    /\ \A d \in WindowDays(windows[2]) : store[d].complete

\* ------------------------------------------------------ the files' content
\* C25 as stated: every file of the directory that is not being written at
\* this moment holds at least one record, and only records whose "fecha" is
\* the file's date; and after a window has been fetched and saved, a day of
\* it that had no file and for which the batch has no record has no file.
C25_ArtifactsNonEmptyHomogeneous ==
    /\ \A d \in Days :
          (store[d].present /\ ~(pc = "writing" /\ Head(todo).key = d)) =>
              /\ Len(store[d].recs) >= 1
              /\ \A i \in 1..Len(store[d].recs) : store[d].recs[i].fecha = d
    /\ (windows # <<>> /\ Last(windows).outcome = "records"
            /\ pc \in {"loop", "done"}) =>
          LET w == Last(windows)
              batch == apiLog[DayOf(w.start)].data
          IN  \A d \in WindowDays(w) \ w.had :
                 WithFecha(batch, d) = <<>> => ~store[d].present

\* ------------------------------------------------------ the current day
\* The calendar day of datetime.now() at the start of the run
Today == DayOf(end_date)
\* C26: the end of every window is on a calendar day before the day the run
\* started, and a window for which a request is made names at least one
\* day and only days before that day.
C26_NeverToday ==
    \A i \in 1..Len(windows) :
        /\ DayOf(windows[i].end) <= Today - 1
        /\ windows[i].outcome # "skipped" =>
              /\ DayOf(windows[i].start) <= DayOf(windows[i].end)
              /\ \A d \in WindowDays(windows[i]) : d < Today
W26_LastWindowEndsYesterday ==
    /\ pc = "done"
    /\ end_date % TicksPerDay # 0
    /\ Len(windows) = 2
    /\ Last(windows).outcome = "records"
    /\ DayOf(Last(windows).end) = Today - 1
    /\ store[Today - 1].present
    /\ ~store[Today].present

\* ------------------------------------------------------ termination
\* The windows a range of end date endd gives, by calendar arithmetic alone
WindowCount(endd) ==
    (endd + timedelta(BATCH_SIZE) - 1) \div timedelta(BATCH_SIZE)
WindowStart(i) == start_date + timedelta(BATCH_SIZE * (i - 1))
WindowEnd(i, endd) ==
    Min(WindowStart(i) + timedelta(BATCH_SIZE - 1), endd - timedelta(1))
WindowsByCalendar ==
    /\ Len(windows) <= WindowCount(end_date)
    /\ \A i \in 1..Len(windows) :
         /\ windows[i].start = WindowStart(i)
         /\ windows[i].end = WindowEnd(i, end_date)
    /\ pc = "done" => Len(windows) = WindowCount(end_date)

\* C21: whatever files the directory holds and whatever the API answers,
\* the run reaches the end of its loop, and the windows it has examined are
\* those that the range's end and the batch size of 15 days determine:
\* the i-th window starts 15 (i - 1) days after the range's start.
C21_LoopTerminates ==
    /\ []WindowsByCalendar
    /\ <>(pc = "done")
W21_ErrorThenSkipOverOldFiles ==
    /\ pc = "done"
    /\ Len(windows) = 2
    /\ windows[1].had # {}
    /\ windows[1].outcome = "error"
    /\ windows[2].outcome = "skipped"
    /\ gets = NoGets

=============================================================================
